---- MODULE Spec2Model ----
(***************************************************************************)
(* Model of youtube_downloader.py: one run of the command-line program,    *)
(* from check_dependencies() to process exit.  The extraction library, the *)
(* terminal and the operator are the environment: their answers (the       *)
(* format list, the typed lines, failures, interrupts) are drawn from      *)
(* small sets.                                                             *)
(*                                                                         *)
(* A format record is a TLA+ record.  A key that is absent from the dict,  *)
(* or present with the value None, is modelled as a key that is not in the *)
(* record's domain: the program reads every optional key through dict.get. *)
(***************************************************************************)
EXTENDS Integers, Sequences, FiniteSets, TLC

VARIABLES
    pc,               \* position of the foreground thread
    audio_only,       \* args.audio_only
    url_typed,        \* lines read at the URL prompt so far
    url,              \* main: url, after strip()
    running,          \* LoadingAnimation.running
    thread,           \* LoadingAnimation.thread: "none", "alive" or "joined"
    formats,          \* list_formats / list_audio_formats: info['formats']
    best_audio_size,  \* list_formats: best_audio_size
    filtered,         \* the list returned by list_formats / list_audio_formats
    table,            \* rows printed by _print_*_formats_table
    typed,            \* lines read by _get_user_format_choice so far
    invalid_reports,  \* number of "Invalid ..." lines printed
    prompts,          \* number of selection prompts shown
    selected_format,  \* value returned by _get_user_format_choice
    requests,         \* download requests handed to ydl.download
    complete,         \* "... complete!" was printed
    fetch_result,     \* outcome of ydl.extract_info
    interrupt,        \* blocking point at which KeyboardInterrupt was raised
    outcome,          \* how main() ended, seen from __main__
    exit_code,        \* process exit status; -1 while the process runs
    ffmpeg_warning,   \* check_dependencies printed the ffmpeg warning
    screen,           \* the terminal line of the animation: "blank" or "frame"
    printed,          \* result, error or goodbye text was printed after the query
    frame_after_text, \* an animation frame was written after that text
    download_result,  \* outcome of ydl.download
    \* LoadingAnimation driven by an arbitrary caller (SpecAnim)
    calls,            \* start() and stop() calls made so far
    caller,           \* position of the calling thread inside start() / stop()
    self_thread,      \* self.thread: index of the Thread object, 0 for None
    threads,          \* position of every animation thread created so far
    frames,           \* frames written to the terminal (saturating)
    \* install_dependencies.py: install_pip_package (SpecInstall)
    env,              \* platform, package name and the commands shutil.which finds
    ipc,              \* the command install_pip_package runs next
    commands,         \* commands run so far, with their outcome
    install_result,   \* value returned by install_pip_package
    install_exit      \* the process was ended by sys.exit

\* the variables of the LoadingAnimation harness and of the installer
harnessVars == <<calls, caller, self_thread, threads, frames>>

installVars == <<env, ipc, commands, install_result, install_exit>>

\* the variables of the run of the downloader, but for the animation's
\* flag and terminal line
flowVars == <<pc, audio_only, url_typed, url, thread, formats, best_audio_size,
              filtered, table, typed, invalid_reports, prompts,
              selected_format, requests, complete, fetch_result, interrupt,
              outcome, exit_code, ffmpeg_warning, printed, frame_after_text,
              download_result>>

vars == <<flowVars, running, screen, harnessVars, installVars>>

(***************************************************************************)
(* Bounds of the model.                                                    *)
(***************************************************************************)
MaxFormats == 3   \* longest format list the extraction library returns
MaxInputs == 4    \* most lines the operator types at the selection prompt

None == "None"    \* Python None, where a string is expected

(***************************************************************************)
(* Environment: the records the extraction library may return.  Each has   *)
(* its own format_id (unique within one metadata response).                *)
(***************************************************************************)
FormatPool ==
    { [format_id |-> "137", vcodec |-> "avc1", acodec |-> "none",
       height |-> 1080, ext |-> "mp4", filesize |-> 3145728],
      [format_id |-> "248", vcodec |-> "vp9", acodec |-> "none",
       height |-> 1080, ext |-> "webm", filesize |-> 2097152],
      [format_id |-> "22", vcodec |-> "avc1", acodec |-> "mp4a",
       height |-> 720, ext |-> "mp4", filesize |-> 1048576, abr |-> 192],
      [format_id |-> "135", vcodec |-> "avc1", acodec |-> "none",
       height |-> 480, ext |-> "mp4", filesize |-> 1048576],
      [format_id |-> "37", vcodec |-> "avc1", acodec |-> "none",
       height |-> 1080, ext |-> "3gp", filesize |-> 1048576],
      [format_id |-> "136", vcodec |-> "avc1", acodec |-> "none",
       height |-> 720, ext |-> "mp4"],
      [format_id |-> "hls", acodec |-> "none",
       height |-> 720, ext |-> "mp4", filesize |-> 524288],
      [format_id |-> "sb0", vcodec |-> "none", acodec |-> "none",
       height |-> 720, ext |-> "webm", filesize |-> 1048576, abr |-> 128],
      [format_id |-> "140", vcodec |-> "none", acodec |-> "mp4a",
       ext |-> "m4a", filesize |-> 131072, abr |-> 128],
      [format_id |-> "251", vcodec |-> "none", acodec |-> "opus",
       ext |-> "webm", filesize |-> 262144, abr |-> 128],
      [format_id |-> "258", vcodec |-> "none", acodec |-> "mp4a",
       ext |-> "m4a", abr |-> 160],
      [format_id |-> "139", vcodec |-> "none", acodec |-> "mp4a",
       ext |-> "m4a", filesize |-> 65536, abr |-> 48],
      [format_id |-> "600", vcodec |-> "none", acodec |-> "opus",
       ext |-> "webm", filesize |-> 32768] }

\* format lists: sequences of distinct pool records
FormatLists ==
    UNION { { s \in [1..n -> FormatPool] :
                \A i, j \in 1..n : i # j => s[i] # s[j] } : n \in 0..MaxFormats }

\* lines the operator may type at the URL prompt
UrlInputs == { <<>>, <<" ", " ">>, <<" ", "h", " ">> }

\* lines the operator may type at the selection prompt
SelectionInputs ==
    { <<"x">>, <<"0">>, <<"5">>, <<"2">>, <<" ", "1", " ">>,
      <<"2", ".", "0">>, <<"+", "3">> }

(***************************************************************************)
(* dict.get and truthiness                                                 *)
(***************************************************************************)
\* f.get(k, d)
Get(f, k, d) == IF k \in DOMAIN f THEN f[k] ELSE d

\* bool(f.get(k)) for a numeric key: neither None nor 0
Truthy(f, k) == k \in DOMAIN f /\ f[k] # 0

\* f.get(k) != s and f.get(k) == s for a string key
GetNe(f, k, s) == k \notin DOMAIN f \/ f[k] # s
GetEq(f, k, s) == k \in DOMAIN f /\ f[k] = s

(***************************************************************************)
(* str.strip and int(str)                                                  *)
(***************************************************************************)
Digits == <<"0", "1", "2", "3", "4", "5", "6", "7", "8", "9">>

IsDigit(c) == \E d \in DOMAIN Digits : Digits[d] = c

DigitValue(c) == (CHOOSE d \in DOMAIN Digits : Digits[d] = c) - 1

RECURSIVE LStrip(_)
LStrip(s) == IF s # <<>> /\ Head(s) = " " THEN LStrip(Tail(s)) ELSE s

RECURSIVE RStrip(_)
RStrip(s) ==
    IF s # <<>> /\ s[Len(s)] = " " THEN RStrip(SubSeq(s, 1, Len(s) - 1)) ELSE s

strip(s) == RStrip(LStrip(s))

RECURSIVE DecimalValue(_)
DecimalValue(s) ==
    IF s = <<>> THEN 0
    ELSE 10 * DecimalValue(SubSeq(s, 1, Len(s) - 1)) + DigitValue(s[Len(s)])

\* int(s): surrounding whitespace dropped, an optional sign, then decimal
\* digits; anything else raises ValueError (ok = FALSE).  The lines of the
\* model hold no underscore, the one other character int() accepts.
int(s) ==
    LET t == strip(s)
        signed == t # <<>> /\ Head(t) \in {"+", "-"}
        body == IF signed THEN Tail(t) ELSE t
    IN  IF body # <<>> /\ \A i \in DOMAIN body : IsDigit(body[i])
        THEN [ok |-> TRUE,
              value |-> IF signed /\ Head(t) = "-" THEN 0 - DecimalValue(body)
                        ELSE DecimalValue(body)]
        ELSE [ok |-> FALSE, value |-> 0]

(***************************************************************************)
(* list.sort(key=...) and max(..., key=...)                                *)
(***************************************************************************)
\* tuple comparison a < b of two (int, int) sort keys
KeyLess(a, b) == a[1] < b[1] \/ (a[1] = b[1] /\ a[2] < b[2])

\* one insertion of a <<key, record>> pair behind every pair that is not
\* greater: the sort is stable, as list.sort is
RECURSIVE Insert(_, _)
Insert(sorted, item) ==
    IF sorted = <<>> THEN <<item>>
    ELSE IF KeyLess(item[1], Head(sorted)[1]) THEN <<item>> \o sorted
    ELSE <<Head(sorted)>> \o Insert(Tail(sorted), item)

RECURSIVE SortPairs(_)
SortPairs(pairs) ==
    IF pairs = <<>> THEN <<>>
    ELSE Insert(SortPairs(SubSeq(pairs, 1, Len(pairs) - 1)), pairs[Len(pairs)])

\* s.sort(key=...) where keys[i] is the key of s[i]
sort(s, keys) ==
    LET sorted == SortPairs([i \in DOMAIN s |-> <<keys[i], s[i]>>])
    IN  [i \in DOMAIN s |-> sorted[i][2]]

(***************************************************************************)
(* format_filesize: f"{round(bytesize / (1024 * 1024), 2)} MB", or         *)
(* "Unknown" for a falsy size.  The text is kept as the unit and the       *)
(* number of hundredths of a MB; round() rounds an exact half to even.     *)
(***************************************************************************)
BytesPerMB == 1024 * 1024

round2(bytesize) ==
    LET q == (bytesize * 100) \div BytesPerMB
        r == (bytesize * 100) % BytesPerMB
    IN  IF 2 * r > BytesPerMB \/ (2 * r = BytesPerMB /\ q % 2 = 1)
        THEN q + 1 ELSE q

format_filesize(bytesize) ==
    IF bytesize # 0 THEN [text |-> "MB", hundredths |-> round2(bytesize)]
    ELSE [text |-> "Unknown", hundredths |-> 0]

(***************************************************************************)
(* get_best_audio_size                                                     *)
(***************************************************************************)
\* variant: the file size test left out
IsSizedAudio_AnySize(f) ==
    /\ GetNe(f, "acodec", "none")
    /\ GetEq(f, "vcodec", "none")

\* the comprehension: audio-only formats with a known file size
IsSizedAudio(f) ==
    /\ GetNe(f, "acodec", "none")
    /\ GetEq(f, "vcodec", "none")
    /\ Truthy(f, "filesize")

\* key=lambda x: x.get('abr', 0) or 0
AbrKey(f) == Get(f, "abr", 0)

\* max(s, key=AbrKey) of a non-empty list: the first element with the
\* largest key
RECURSIVE max(_)
max(s) ==
    IF Len(s) = 1 THEN s[1]
    ELSE LET best == max(SubSeq(s, 1, Len(s) - 1))
         IN  IF AbrKey(s[Len(s)]) > AbrKey(best) THEN s[Len(s)] ELSE best

get_best_audio_size(fs) ==
    LET audio_formats == SelectSeq(fs, IsSizedAudio)
    IN  IF audio_formats # <<>>
        THEN Get(max(audio_formats), "filesize", 0)
        ELSE 0

(***************************************************************************)
(* _print_video_formats_table and _print_audio_formats_table: one record   *)
(* per printed row, holding the row number, the container and the size     *)
(* column.                                                                 *)
(***************************************************************************)
_print_video_formats_table(fs, audio_size) ==
    [i \in DOMAIN fs |->
        LET video_size == Get(fs[i], "filesize", 0)
            total_size == video_size + audio_size
        IN  [row |-> i, container |-> Get(fs[i], "ext", "?"),
             size_str |-> format_filesize(total_size)]]

_print_audio_formats_table(fs) ==
    [i \in DOMAIN fs |->
        [row |-> i, container |-> Get(fs[i], "ext", "?"),
         size_str |-> format_filesize(Get(fs[i], "filesize", 0))]]

(***************************************************************************)
(* list_formats and list_audio_formats: filter and sort                    *)
(***************************************************************************)
MinHeight == 720

\* variant: the height test written as a strict comparison
IsVideoFormat_StrictHeight(f) ==
    /\ GetNe(f, "vcodec", "none")
    /\ Truthy(f, "height")
    /\ "ext" \in DOMAIN f /\ f.ext \in {"mp4", "webm"}
    /\ Get(f, "height", 0) > MinHeight
    /\ Truthy(f, "filesize")

IsVideoFormat(f) ==
    /\ GetNe(f, "vcodec", "none")
    /\ Truthy(f, "height")
    /\ "ext" \in DOMAIN f /\ f.ext \in {"mp4", "webm"}
    /\ Get(f, "height", 0) >= MinHeight
    /\ Truthy(f, "filesize")

\* variant: the size part of the key negated as the height part is
VideoSortKey_LargestFirst(f) ==
    <<0 - Get(f, "height", 0), 0 - Get(f, "filesize", 0)>>

VideoSortKey(f) == <<0 - Get(f, "height", 0), Get(f, "filesize", 0)>>

FilterVideo(fs) ==
    LET kept == SelectSeq(fs, IsVideoFormat)
    IN  sort(kept, [i \in DOMAIN kept |-> VideoSortKey(kept[i])])

\* variant: the bitrate test left out
IsAudioFormat_NoBitrate(f) ==
    /\ GetNe(f, "acodec", "none")
    /\ GetEq(f, "vcodec", "none")
    /\ Truthy(f, "filesize")

IsAudioFormat(f) ==
    /\ GetNe(f, "acodec", "none")
    /\ GetEq(f, "vcodec", "none")
    /\ Truthy(f, "filesize")
    /\ Truthy(f, "abr")

AudioSortKey(f) == <<0 - Get(f, "abr", 0), Get(f, "filesize", 0)>>

FilterAudio(fs) ==
    LET kept == SelectSeq(fs, IsAudioFormat)
    IN  sort(kept, [i \in DOMAIN kept |-> AudioSortKey(kept[i])])

(***************************************************************************)
(* The run of the program                                                  *)
(***************************************************************************)
\* the LoadingAnimation harness and the installer take no part in a run of
\* the downloader
HarnessIdle ==
    /\ calls = <<>>
    /\ caller = "idle"
    /\ self_thread = 0
    /\ threads = <<>>
    /\ frames = 0

InstallIdle ==
    /\ env = <<>>
    /\ ipc = "idle"
    /\ commands = <<>>
    /\ install_result = "none"
    /\ install_exit = FALSE

Init ==
    /\ pc = "start"
    /\ audio_only \in BOOLEAN
    /\ url_typed = <<>>
    /\ url = <<>>
    /\ running = FALSE
    /\ thread = "none"
    /\ formats = <<>>
    /\ best_audio_size = 0
    /\ filtered = <<>>
    /\ table = <<>>
    /\ typed = <<>>
    /\ invalid_reports = 0
    /\ prompts = 0
    /\ selected_format = None
    /\ requests = <<>>
    /\ complete = FALSE
    /\ fetch_result = "none"
    /\ interrupt = "none"
    /\ outcome = "running"
    /\ exit_code = -1
    /\ ffmpeg_warning = FALSE
    /\ screen = "blank"
    /\ printed = FALSE
    /\ frame_after_text = FALSE
    /\ download_result = "none"
    /\ HarnessIdle
    /\ InstallIdle

\* the foreground thread goes on to its next blocking point
Continue(next) ==
    /\ pc' = next
    /\ outcome' = outcome
    /\ exit_code' = exit_code

\* __main__: main() returned, the interpreter exits with status 0
MainReturns ==
    /\ pc' = "exit"
    /\ outcome' = "returned"
    /\ exit_code' = 0

\* variant: the generic handler of __main__ takes the KeyboardInterrupt
KeyboardInterruptExit_AsError ==
    /\ pc' = "exit"
    /\ outcome' = "Exception"
    /\ exit_code' = 1

\* __main__: KeyboardInterrupt raised in main() ends the process with 0
KeyboardInterruptExit ==
    /\ pc' = "exit"
    /\ outcome' = "KeyboardInterrupt"
    /\ exit_code' = 0

\* __main__: any other Exception raised in main() ends the process with 1
UnexpectedErrorExit ==
    /\ pc' = "exit"
    /\ outcome' = "Exception"
    /\ exit_code' = 1

\* sys.exit(1): SystemExit passes both handlers of __main__
SysExit ==
    /\ pc' = "exit"
    /\ outcome' = "SystemExit"
    /\ exit_code' = 1

\* main: check_dependencies() and the argument parser; a missing yt_dlp
\* ends the process with status 1, a missing ffmpeg only prints a warning
check_dependencies ==
    /\ pc = "start"
    /\ \E yt_dlp_found, ffmpeg_found \in BOOLEAN :
          IF yt_dlp_found
          THEN Continue("url") /\ ffmpeg_warning' = ~ffmpeg_found
          ELSE SysExit /\ ffmpeg_found /\ ffmpeg_warning' = FALSE
    /\ UNCHANGED <<audio_only, url_typed, url, running, thread, formats,
                   best_audio_size, filtered, table, typed, invalid_reports,
                   prompts, selected_format, requests, complete, fetch_result,
                   interrupt>>
    /\ UNCHANGED <<screen, printed, frame_after_text, download_result,
                   harnessVars, installVars>>

\* LoadingAnimation.start
start == running' = TRUE /\ thread' = "alive"

\* LoadingAnimation.stop: clear the flag, join the thread if there is one
stop ==
    /\ running' = FALSE
    /\ thread' = (IF thread # "none" THEN "joined" ELSE thread)
    /\ screen' = "blank"

\* main: the URL is read and stripped; an empty one is reported and main
\* returns; otherwise the workflow starts the animation and calls
\* list_formats or list_audio_formats, which blocks in extract_info
ReadUrl ==
    /\ pc = "url"
    /\ \E line \in UrlInputs :
          /\ url_typed' = Append(url_typed, line)
          /\ url' = strip(line)
          /\ IF url' = <<>>
             THEN MainReturns /\ UNCHANGED <<running, thread>>
             ELSE Continue("fetch") /\ start
    /\ UNCHANGED <<audio_only, formats, best_audio_size, filtered, table,
                   typed, invalid_reports, prompts, selected_format, requests,
                   complete, fetch_result, interrupt>>
    /\ UNCHANGED <<ffmpeg_warning, screen, printed, frame_after_text,
                   download_result, harnessVars, installVars>>

\* KeyboardInterrupt while input() waits for the URL
ReadUrlInterrupt ==
    /\ pc = "url"
    /\ interrupt' = "url"
    /\ KeyboardInterruptExit
    /\ UNCHANGED <<audio_only, url_typed, url, running, thread, formats,
                   best_audio_size, filtered, table, typed, invalid_reports,
                   prompts, selected_format, requests, complete, fetch_result>>
    /\ UNCHANGED <<ffmpeg_warning, screen, printed, frame_after_text,
                   download_result, harnessVars, installVars>>

\* input() raises EOFError when the input stream is closed
ReadUrlEOF ==
    /\ pc = "url"
    /\ UnexpectedErrorExit
    /\ UNCHANGED <<audio_only, url_typed, url, running, thread, formats,
                   best_audio_size, filtered, table, typed, invalid_reports,
                   prompts, selected_format, requests, complete, fetch_result,
                   interrupt>>
    /\ UNCHANGED <<ffmpeg_warning, screen, printed, frame_after_text,
                   download_result, harnessVars, installVars>>

\* list_formats, extract_info succeeded: stop the animation, compute the
\* audio size, filter, sort, print the table, return the filtered list
list_formats ==
    /\ pc = "fetch" /\ ~audio_only
    /\ \E fs \in FormatLists :
          /\ formats' = fs
          /\ best_audio_size' = get_best_audio_size(fs)
          /\ filtered' = FilterVideo(fs)
          /\ table' = _print_video_formats_table(filtered', best_audio_size')
    /\ stop
    /\ fetch_result' = "ok"
    /\ Continue("listed")
    /\ UNCHANGED <<audio_only, url_typed, url, typed, invalid_reports,
                   prompts, selected_format, requests, complete, interrupt>>
    /\ printed' = TRUE
    /\ UNCHANGED <<ffmpeg_warning, frame_after_text, download_result,
                   harnessVars, installVars>>

\* variant: list_formats has no handler for the Exception
list_formats_error_Uncaught ==
    /\ pc = "fetch" /\ ~audio_only
    /\ fetch_result' = "error"
    /\ UnexpectedErrorExit
    /\ UNCHANGED <<audio_only, url_typed, url, running, thread, formats,
                   best_audio_size, filtered, table, typed, invalid_reports,
                   prompts, selected_format, requests, complete, interrupt>>
    /\ UNCHANGED <<ffmpeg_warning, screen, printed, frame_after_text,
                   download_result, harnessVars, installVars>>

\* list_formats, extract_info (or info['formats']) raised an Exception:
\* stop the animation, print the error, return []
list_formats_error ==
    /\ pc = "fetch" /\ ~audio_only
    /\ stop
    /\ fetch_result' = "error"
    /\ filtered' = <<>>
    /\ Continue("listed")
    /\ UNCHANGED <<audio_only, url_typed, url, formats, best_audio_size,
                   table, typed, invalid_reports, prompts, selected_format,
                   requests, complete, interrupt>>
    /\ printed' = TRUE
    /\ UNCHANGED <<ffmpeg_warning, frame_after_text, download_result,
                   harnessVars, installVars>>

\* list_audio_formats, extract_info succeeded
list_audio_formats ==
    /\ pc = "fetch" /\ audio_only
    /\ \E fs \in FormatLists :
          /\ formats' = fs
          /\ filtered' = FilterAudio(fs)
          /\ table' = _print_audio_formats_table(filtered')
    /\ stop
    /\ fetch_result' = "ok"
    /\ Continue("listed")
    /\ UNCHANGED <<audio_only, url_typed, url, best_audio_size, typed,
                   invalid_reports, prompts, selected_format, requests,
                   complete, interrupt>>
    /\ printed' = TRUE
    /\ UNCHANGED <<ffmpeg_warning, frame_after_text, download_result,
                   harnessVars, installVars>>

\* list_audio_formats, extract_info raised an Exception
list_audio_formats_error ==
    /\ pc = "fetch" /\ audio_only
    /\ stop
    /\ fetch_result' = "error"
    /\ filtered' = <<>>
    /\ Continue("listed")
    /\ UNCHANGED <<audio_only, url_typed, url, formats, best_audio_size,
                   table, typed, invalid_reports, prompts, selected_format,
                   requests, complete, interrupt>>
    /\ printed' = TRUE
    /\ UNCHANGED <<ffmpeg_warning, frame_after_text, download_result,
                   harnessVars, installVars>>

\* KeyboardInterrupt in extract_info is no Exception: it passes the handler
\* of list_formats / list_audio_formats and the animation is not stopped;
\* __main__ prints its goodbye text
FetchInterrupt ==
    /\ pc = "fetch"
    /\ fetch_result' = "interrupt"
    /\ interrupt' = "fetch"
    /\ pc' = "goodbye"
    /\ outcome' = "KeyboardInterrupt"
    /\ printed' = TRUE
    /\ UNCHANGED <<audio_only, url_typed, url, running, thread, formats,
                   best_audio_size, filtered, table, typed, invalid_reports,
                   prompts, selected_format, requests, complete, exit_code>>
    /\ UNCHANGED <<ffmpeg_warning, screen, frame_after_text, download_result,
                   harnessVars, installVars>>

\* __main__: sys.exit(0) after the goodbye text; the daemon thread of the
\* animation ends with the process without having been joined
GoodbyeExit ==
    /\ pc = "goodbye"
    /\ pc' = "exit"
    /\ exit_code' = 0
    /\ UNCHANGED <<audio_only, url_typed, url, running, thread, formats,
                   best_audio_size, filtered, table, typed, invalid_reports,
                   prompts, selected_format, requests, complete, fetch_result,
                   interrupt, outcome>>
    /\ UNCHANGED <<ffmpeg_warning, screen, printed, frame_after_text,
                   download_result, harnessVars, installVars>>

\* LoadingAnimation._animate, one turn of the loop while the process lives:
\* the flag is set, a frame is written
_animate ==
    /\ pc \in {"fetch", "goodbye"}
    /\ thread = "alive" /\ running
    /\ screen' = "frame"
    /\ frame_after_text' = (frame_after_text \/ printed)
    /\ screen' # screen \/ frame_after_text' # frame_after_text
    /\ UNCHANGED <<pc, audio_only, url_typed, url, running, thread, formats,
                   best_audio_size, filtered, table, typed, invalid_reports,
                   prompts, selected_format, requests, complete, fetch_result,
                   interrupt, outcome, exit_code>>
    /\ UNCHANGED <<ffmpeg_warning, printed, download_result, harnessVars,
                   installVars>>

\* variant: the workflow does not test the list it got back
HandleFormats_NoEmptyCheck ==
    /\ pc = "listed"
    /\ formats' = <<>>
    /\ best_audio_size' = 0
    /\ Continue("select") /\ prompts' = prompts + 1
    /\ UNCHANGED <<audio_only, url_typed, url, running, thread, filtered,
                   table, typed, invalid_reports, selected_format, requests,
                   complete, fetch_result, interrupt>>
    /\ UNCHANGED <<ffmpeg_warning, screen, printed, frame_after_text,
                   download_result, harnessVars, installVars>>

\* the workflow after the list call: an empty list ends it, otherwise the
\* selection prompt is shown.  The locals of the list function are gone.
HandleFormats ==
    /\ pc = "listed"
    /\ formats' = <<>>
    /\ best_audio_size' = 0
    /\ IF filtered = <<>>
       THEN MainReturns /\ prompts' = prompts
       ELSE Continue("select") /\ prompts' = prompts + 1
    /\ UNCHANGED <<audio_only, url_typed, url, running, thread, filtered,
                   table, typed, invalid_reports, selected_format, requests,
                   complete, fetch_result, interrupt>>
    /\ UNCHANGED <<ffmpeg_warning, screen, printed, frame_after_text,
                   download_result, harnessVars, installVars>>

_handle_video_download == ~audio_only /\ HandleFormats

_handle_audio_download == audio_only /\ HandleFormats

\* variant: both workflows call download_selected_format
DownloadRequest_AlwaysMuxed(format_id) ==
    [kind |-> "video", format |-> <<format_id, "+bestaudio/best">>]

\* download_selected_format / download_selected_audio up to ydl.download:
\* the 'format' option of the request handed to the extraction library
DownloadRequest(format_id) ==
    IF audio_only THEN [kind |-> "audio", format |-> <<format_id>>]
    ELSE [kind |-> "video", format |-> <<format_id, "+bestaudio/best">>]

\* 1 <= choice <= len(formats)
InRange(choice, fs) == 1 <= choice /\ choice <= Len(fs)

\* variant: the list indexed with the number as typed, formats[choice]
ChosenFormatId_OffByOne(fs, choice) ==
    fs[IF choice < Len(fs) THEN choice + 1 ELSE 1].format_id

\* formats[choice - 1]['format_id'] (sequences count from 1)
ChosenFormatId(fs, choice) == fs[choice].format_id

\* _get_user_format_choice, one line read: a number in range returns the
\* format_id of that entry and the workflow calls the download function
\* (os.makedirs may raise, which no handler but __main__ catches); any
\* other line is reported and the prompt is shown again
_get_user_format_choice ==
    /\ pc = "select"
    /\ Len(typed) < MaxInputs
    /\ \E line \in SelectionInputs, makedirs_ok \in BOOLEAN :
          LET choice == int(line) IN
          /\ typed' = Append(typed, line)
          /\ IF choice.ok /\ InRange(choice.value, filtered)
             THEN /\ selected_format' = ChosenFormatId(filtered, choice.value)
                  /\ UNCHANGED <<invalid_reports, prompts>>
                  /\ IF makedirs_ok
                     THEN /\ requests' = Append(requests,
                                                DownloadRequest(selected_format'))
                          /\ Continue("download")
                     ELSE UnexpectedErrorExit /\ requests' = requests
             ELSE /\ makedirs_ok
                  /\ invalid_reports' = invalid_reports + 1
                  /\ prompts' = prompts + 1
                  /\ Continue("select")
                  /\ UNCHANGED <<selected_format, requests>>
    /\ UNCHANGED <<audio_only, url_typed, url, running, thread, formats,
                   best_audio_size, filtered, table, complete, fetch_result,
                   interrupt>>
    /\ UNCHANGED <<ffmpeg_warning, screen, printed, frame_after_text,
                   download_result, harnessVars, installVars>>

\* variant: the prompt has no handler for KeyboardInterrupt
SelectInterrupt_Uncaught ==
    /\ pc = "select"
    /\ interrupt' = "select"
    /\ KeyboardInterruptExit
    /\ UNCHANGED <<audio_only, url_typed, url, running, thread, formats,
                   best_audio_size, filtered, table, typed, invalid_reports,
                   prompts, selected_format, requests, complete, fetch_result>>
    /\ UNCHANGED <<ffmpeg_warning, screen, printed, frame_after_text,
                   download_result, harnessVars, installVars>>

\* _get_user_format_choice: KeyboardInterrupt at the prompt is caught, None
\* is returned, the workflow skips the download and main returns
SelectInterrupt ==
    /\ pc = "select"
    /\ interrupt' = "select"
    /\ selected_format' = None
    /\ MainReturns
    /\ UNCHANGED <<audio_only, url_typed, url, running, thread, formats,
                   best_audio_size, filtered, table, typed, invalid_reports,
                   prompts, requests, complete, fetch_result>>
    /\ UNCHANGED <<ffmpeg_warning, screen, printed, frame_after_text,
                   download_result, harnessVars, installVars>>

\* input() raises EOFError, which _get_user_format_choice does not catch
SelectEOF ==
    /\ pc = "select"
    /\ UnexpectedErrorExit
    /\ UNCHANGED <<audio_only, url_typed, url, running, thread, formats,
                   best_audio_size, filtered, table, typed, invalid_reports,
                   prompts, selected_format, requests, complete, fetch_result,
                   interrupt>>
    /\ UNCHANGED <<ffmpeg_warning, screen, printed, frame_after_text,
                   download_result, harnessVars, installVars>>

\* download_selected_format / download_selected_audio: ydl.download returned
DownloadComplete ==
    /\ pc = "download"
    /\ complete' = TRUE
    /\ MainReturns
    /\ UNCHANGED <<audio_only, url_typed, url, running, thread, formats,
                   best_audio_size, filtered, table, typed, invalid_reports,
                   prompts, selected_format, requests, fetch_result,
                   interrupt>>
    /\ download_result' = "ok"
    /\ UNCHANGED <<ffmpeg_warning, screen, printed, frame_after_text,
                   harnessVars, installVars>>

\* variant: a failed ydl.download is tried once more
DownloadFailed_Retry ==
    /\ pc = "download"
    /\ Len(requests) < 2
    /\ requests' = Append(requests, requests[Len(requests)])
    /\ Continue("download")
    /\ UNCHANGED <<audio_only, url_typed, url, running, thread, formats,
                   best_audio_size, filtered, table, typed, invalid_reports,
                   prompts, selected_format, complete, fetch_result,
                   interrupt>>
    /\ download_result' = "error"
    /\ UNCHANGED <<ffmpeg_warning, screen, printed, frame_after_text,
                   harnessVars, installVars>>

\* ydl.download raised an Exception: reported, the function returns
DownloadFailed ==
    /\ pc = "download"
    /\ MainReturns
    /\ UNCHANGED <<audio_only, url_typed, url, running, thread, formats,
                   best_audio_size, filtered, table, typed, invalid_reports,
                   prompts, selected_format, requests, complete, fetch_result,
                   interrupt>>
    /\ download_result' = "error"
    /\ UNCHANGED <<ffmpeg_warning, screen, printed, frame_after_text,
                   harnessVars, installVars>>

\* KeyboardInterrupt in ydl.download is no Exception: it reaches __main__
DownloadInterrupt ==
    /\ pc = "download"
    /\ interrupt' = "download"
    /\ KeyboardInterruptExit
    /\ UNCHANGED <<audio_only, url_typed, url, running, thread, formats,
                   best_audio_size, filtered, table, typed, invalid_reports,
                   prompts, selected_format, requests, complete, fetch_result>>
    /\ download_result' = "interrupt"
    /\ UNCHANGED <<ffmpeg_warning, screen, printed, frame_after_text,
                   harnessVars, installVars>>

Next ==
    \/ check_dependencies
    \/ ReadUrl
    \/ ReadUrlInterrupt
    \/ ReadUrlEOF
    \/ list_formats
    \/ list_formats_error
    \/ list_audio_formats
    \/ list_audio_formats_error
    \/ FetchInterrupt
    \/ GoodbyeExit
    \/ _animate
    \/ _handle_video_download
    \/ _handle_audio_download
    \/ _get_user_format_choice
    \/ SelectInterrupt
    \/ SelectEOF
    \/ DownloadComplete
    \/ DownloadFailed
    \/ DownloadInterrupt

Spec == Init /\ [][Next]_vars

(***************************************************************************)
(* LoadingAnimation under an arbitrary caller: one foreground thread calls *)
(* start() and stop() in any order, the animation threads run in between.  *)
(* Each statement of start(), stop() and _animate is one step.             *)
(***************************************************************************)
MaxCalls == 3     \* most start() / stop() calls the caller makes
MaxFrames == 2    \* the count of written frames stops growing here

\* the run of the downloader takes no part in the harness
FlowIdle ==
    /\ pc = "start"
    /\ audio_only = FALSE
    /\ url_typed = <<>>
    /\ url = <<>>
    /\ thread = "none"
    /\ formats = <<>>
    /\ best_audio_size = 0
    /\ filtered = <<>>
    /\ table = <<>>
    /\ typed = <<>>
    /\ invalid_reports = 0
    /\ prompts = 0
    /\ selected_format = None
    /\ requests = <<>>
    /\ complete = FALSE
    /\ fetch_result = "none"
    /\ interrupt = "none"
    /\ outcome = "running"
    /\ exit_code = -1
    /\ ffmpeg_warning = FALSE
    /\ printed = FALSE
    /\ frame_after_text = FALSE
    /\ download_result = "none"

\* LoadingAnimation.__init__
InitAnim ==
    /\ FlowIdle
    /\ InstallIdle
    /\ running = FALSE
    /\ self_thread = 0
    /\ threads = <<>>
    /\ calls = <<>>
    /\ caller = "idle"
    /\ screen = "blank"
    /\ frames = 0

\* start(), first statement: self.running = True
StartSetFlag ==
    /\ caller = "idle"
    /\ Len(calls) < MaxCalls
    /\ calls' = Append(calls, "start")
    /\ running' = TRUE
    /\ caller' = "start_thread"
    /\ UNCHANGED <<self_thread, threads, screen, frames, flowVars, installVars>>

\* start(), the rest: a new Thread is stored in self.thread and started
StartThread ==
    /\ caller = "start_thread"
    /\ threads' = Append(threads, "test")
    /\ self_thread' = Len(threads) + 1
    /\ caller' = "idle"
    /\ UNCHANGED <<calls, running, screen, frames, flowVars, installVars>>

\* stop(), first statement: self.running = False
StopClearFlag ==
    /\ caller = "idle"
    /\ Len(calls) < MaxCalls
    /\ calls' = Append(calls, "stop")
    /\ running' = FALSE
    /\ caller' = "stop_join"
    /\ UNCHANGED <<self_thread, threads, screen, frames, flowVars, installVars>>

\* variant: stop() does not wait for the thread
StopJoin_NoWait ==
    /\ caller = "stop_join"
    /\ caller' = "stop_clear"
    /\ UNCHANGED <<calls, running, self_thread, threads, screen, frames,
                   flowVars, installVars>>

\* stop(): if self.thread: self.thread.join() returns once that thread has
\* ended
StopJoin ==
    /\ caller = "stop_join"
    /\ self_thread # 0 => threads[self_thread] = "done"
    /\ caller' = "stop_clear"
    /\ UNCHANGED <<calls, running, self_thread, threads, screen, frames,
                   flowVars, installVars>>

\* stop(), last statements: the line is overwritten with spaces
StopClearLine ==
    /\ caller = "stop_clear"
    /\ screen' = "blank"
    /\ caller' = "idle"
    /\ UNCHANGED <<calls, running, self_thread, threads, frames, flowVars,
                   installVars>>

\* _animate: while self.running
AnimateTest(t) ==
    /\ threads[t] = "test"
    /\ threads' = [threads EXCEPT ![t] = IF running THEN "write" ELSE "done"]
    /\ UNCHANGED <<calls, caller, running, self_thread, screen, frames,
                   flowVars, installVars>>

\* _animate: the frame is written and flushed, then the thread sleeps
AnimateWrite(t) ==
    /\ threads[t] = "write"
    /\ threads' = [threads EXCEPT ![t] = "test"]
    /\ screen' = "frame"
    /\ frames' = IF frames < MaxFrames THEN frames + 1 ELSE frames
    /\ UNCHANGED <<calls, caller, running, self_thread, flowVars, installVars>>

NextAnim ==
    \/ StartSetFlag
    \/ StartThread
    \/ StopClearFlag
    \/ StopJoin
    \/ StopClearLine
    \/ \E t \in DOMAIN threads : AnimateTest(t)
    \/ \E t \in DOMAIN threads : AnimateWrite(t)

SpecAnim == InitAnim /\ [][NextAnim]_vars

(***************************************************************************)
(* install_dependencies.py: one call of install_pip_package.  The machine   *)
(* it runs on is the record env: the platform, the package asked for and    *)
(* what shutil.which finds.  Every run_command call is one step, and the    *)
(* command it runs may succeed, fail or be missing.                         *)
(***************************************************************************)
Systems == {"linux", "windows"}

PackageNames == {"yt-dlp", "requests"}

Envs ==
    [system : Systems, package_name : PackageNames,
     apt : BOOLEAN, pipx : BOOLEAN, pip3 : BOOLEAN, pip : BOOLEAN]

\* subprocess.run(command, check=True): returns, raises CalledProcessError,
\* or raises FileNotFoundError
CommandResults == {"ok", "CalledProcessError", "FileNotFoundError"}

\* shutil.which(cmd)
which(cmd) == env[cmd]

\* pip_commands = ['pip3', 'pip']
pip_commands == <<"pip3", "pip">>

\* the position of the normal and of the --user install of pip_commands[i]
PipPc == <<"pip3_install", "pip_install">>

PipUserPc == <<"pip3_user_install", "pip_user_install">>

\* return True / return False of install_pip_package
Return(value) == ipc' = "returned" /\ install_result' = value

\* control goes on to the run_command call at position p
Goto(p) == ipc' = p /\ install_result' = install_result

\* run_command: the command is run; True on success, on failure the
\* process exits if critical, else False is returned
run_command(command, result, critical, on_true, on_false) ==
    /\ commands' = Append(commands, [command |-> command, result |-> result])
    /\ IF result = "ok"
       THEN on_true /\ install_exit' = install_exit
       ELSE IF critical
            THEN ipc' = "exit" /\ install_result' = install_result
                 /\ install_exit' = TRUE
            ELSE on_false /\ install_exit' = install_exit

\* for pip_cmd in pip_commands: the first one from index i on that
\* shutil.which finds, and after the loop python -m pip
RECURSIVE PipLoop(_)
PipLoop(i) ==
    IF i > Len(pip_commands) THEN "python_m_pip"
    ELSE IF which(pip_commands[i]) THEN PipPc[i]
    ELSE PipLoop(i + 1)

\* linux: pipx if it is there, else apt install pipx if apt is there
PipxStage ==
    IF which("pipx") THEN "pipx_install"
    ELSE IF which("apt") THEN "apt_install_pipx"
    ELSE PipLoop(1)

InitInstall ==
    /\ FlowIdle
    /\ HarnessIdle
    /\ running = FALSE
    /\ screen = "blank"
    /\ env \in Envs
    /\ ipc = "called"
    /\ commands = <<>>
    /\ install_result = "none"
    /\ install_exit = FALSE

\* install_pip_package up to its first run_command call
install_pip_package ==
    /\ ipc = "called"
    /\ Goto(IF env.system = "linux"
            THEN IF env.package_name = "yt-dlp" /\ which("apt")
                 THEN "apt_update"
                 ELSE PipxStage
            ELSE PipLoop(1))
    /\ UNCHANGED <<env, commands, install_exit>>
    /\ UNCHANGED <<flowVars, running, screen, harnessVars>>

\* sudo apt update
AptUpdate ==
    /\ ipc = "apt_update"
    /\ \E result \in CommandResults :
          run_command(<<"sudo", "apt", "update">>, result, FALSE,
                      Goto("apt_install_package"), Goto(PipxStage))
    /\ UNCHANGED <<env, flowVars, running, screen, harnessVars>>

\* sudo apt install -y yt-dlp
AptInstallPackage ==
    /\ ipc = "apt_install_package"
    /\ \E result \in CommandResults :
          run_command(<<"sudo", "apt", "install", "-y", "yt-dlp">>, result,
                      FALSE, Return("True"), Goto(PipxStage))
    /\ UNCHANGED <<env, flowVars, running, screen, harnessVars>>

\* pipx install package_name, pipx found
PipxInstall ==
    /\ ipc = "pipx_install"
    /\ \E result \in CommandResults :
          run_command(<<"pipx", "install", env.package_name>>, result,
                      FALSE, Return("True"), Goto(PipLoop(1)))
    /\ UNCHANGED <<env, flowVars, running, screen, harnessVars>>

\* sudo apt install -y pipx
AptInstallPipx ==
    /\ ipc = "apt_install_pipx"
    /\ \E result \in CommandResults :
          run_command(<<"sudo", "apt", "install", "-y", "pipx">>, result,
                      FALSE, Goto("pipx_install_again"), Goto(PipLoop(1)))
    /\ UNCHANGED <<env, flowVars, running, screen, harnessVars>>

\* pipx install package_name, after pipx was installed
PipxInstallAgain ==
    /\ ipc = "pipx_install_again"
    /\ \E result \in CommandResults :
          run_command(<<"pipx", "install", env.package_name>>, result,
                      FALSE, Return("True"), Goto(PipLoop(1)))
    /\ UNCHANGED <<env, flowVars, running, screen, harnessVars>>

\* variant: the result of the normal install is not looked at
PipInstall_FallsThrough(i) ==
    /\ ipc = PipPc[i]
    /\ \E result \in CommandResults :
          run_command(<<pip_commands[i], "install", "--upgrade",
                        env.package_name>>, result, FALSE,
                      Goto(PipUserPc[i]), Goto(PipUserPc[i]))
    /\ UNCHANGED <<env, flowVars, running, screen, harnessVars>>

\* pip_cmd install --upgrade package_name
PipInstall(i) ==
    /\ ipc = PipPc[i]
    /\ \E result \in CommandResults :
          run_command(<<pip_commands[i], "install", "--upgrade",
                        env.package_name>>, result, FALSE,
                      Return("True"), Goto(PipUserPc[i]))
    /\ UNCHANGED <<env, flowVars, running, screen, harnessVars>>

\* pip_cmd install --user --upgrade package_name
PipUserInstall(i) ==
    /\ ipc = PipUserPc[i]
    /\ \E result \in CommandResults :
          run_command(<<pip_commands[i], "install", "--user", "--upgrade",
                        env.package_name>>, result, FALSE,
                      Return("True"), Goto(PipLoop(i + 1)))
    /\ UNCHANGED <<env, flowVars, running, screen, harnessVars>>

\* sys.executable -m pip install --upgrade package_name
PythonMPip ==
    /\ ipc = "python_m_pip"
    /\ \E result \in CommandResults :
          run_command(<<"python", "-m", "pip", "install", "--upgrade",
                        env.package_name>>, result, FALSE,
                      Return("True"), Goto("python_m_pip_user"))
    /\ UNCHANGED <<env, flowVars, running, screen, harnessVars>>

\* sys.executable -m pip install --user --upgrade package_name; when it
\* fails too the advice is printed and False is returned
PythonMPipUser ==
    /\ ipc = "python_m_pip_user"
    /\ \E result \in CommandResults :
          run_command(<<"python", "-m", "pip", "install", "--user",
                        "--upgrade", env.package_name>>, result, FALSE,
                      Return("True"), Return("False"))
    /\ UNCHANGED <<env, flowVars, running, screen, harnessVars>>

NextInstall ==
    \/ install_pip_package
    \/ AptUpdate
    \/ AptInstallPackage
    \/ PipxInstall
    \/ AptInstallPipx
    \/ PipxInstallAgain
    \/ \E i \in DOMAIN pip_commands : PipInstall(i)
    \/ \E i \in DOMAIN pip_commands : PipUserInstall(i)
    \/ PythonMPip
    \/ PythonMPipUser

SpecInstall == InitInstall /\ [][NextInstall]_vars

(***************************************************************************)
(* Properties                                                              *)
(***************************************************************************)
Range(s) == {s[i] : i \in DOMAIN s}

\* list_formats has returned its filtered list and its locals are in view
VideoListed == pc = "listed" /\ ~audio_only /\ fetch_result = "ok"

\* list_audio_formats has returned its filtered list
AudioListed == pc = "listed" /\ audio_only /\ fetch_result = "ok"

\* the records the video filter is said to admit
AdmittedVideo(f) ==
    /\ ("vcodec" \in DOMAIN f => f.vcodec # "none")
    /\ "height" \in DOMAIN f /\ f.height >= 720
    /\ "ext" \in DOMAIN f /\ f.ext \in {"mp4", "webm"}
    /\ "filesize" \in DOMAIN f /\ f.filesize # 0

\* C1: the list returned by list_formats holds exactly the records of the
\* input whose video codec is not 'none', whose height is present and at
\* least 720, whose extension is mp4 or webm and whose filesize is known;
\* no returned record has a height below 720 or another extension.
C1_VideoFilterExact ==
    VideoListed =>
        /\ \A f \in Range(formats) : f \in Range(filtered) <=> AdmittedVideo(f)
        /\ Range(filtered) \subseteq Range(formats)
        /\ Cardinality(Range(filtered)) = Len(filtered)
        /\ \A i \in DOMAIN filtered :
              filtered[i].height >= 720 /\ filtered[i].ext \in {"mp4", "webm"}

\* some records of the input were admitted and others rejected for their
\* height, their container and their unknown size
C1_Witness ==
    /\ VideoListed
    /\ Len(filtered) = 1
    /\ \E f \in Range(formats) : "height" \in DOMAIN f /\ f.height < 720
    /\ \E f \in Range(formats) :
          "height" \in DOMAIN f /\ f.height >= 720 /\ "filesize" \notin DOMAIN f

\* C2: the list returned by list_formats is in descending height, records
\* of equal height in ascending filesize.
C2_VideoOrder ==
    VideoListed =>
        \A i \in 1..(Len(filtered) - 1) :
            \/ filtered[i].height > filtered[i + 1].height
            \/ /\ filtered[i].height = filtered[i + 1].height
               /\ filtered[i].filesize <= filtered[i + 1].filesize

\* two records of equal height arrived larger file first, after a record of
\* lower height, and were put in order
C2_Witness ==
    /\ VideoListed
    /\ Len(formats) = 3 /\ Len(filtered) = 3
    /\ formats[1].height < formats[2].height
    /\ formats[2].height = formats[3].height
    /\ formats[2].filesize > formats[3].filesize
    /\ filtered = <<formats[3], formats[2], formats[1]>>

\* the records the audio filter is said to admit
AdmittedAudio(f) ==
    /\ ("acodec" \in DOMAIN f => f.acodec # "none")
    /\ "vcodec" \in DOMAIN f /\ f.vcodec = "none"
    /\ "filesize" \in DOMAIN f /\ f.filesize # 0
    /\ "abr" \in DOMAIN f /\ f.abr # 0

\* C3: list_audio_formats returns exactly the records with an audio codec
\* other than 'none', video codec 'none', known filesize and known bitrate,
\* in descending bitrate, records of equal bitrate in ascending filesize.
C3_AudioFilterAndOrder ==
    AudioListed =>
        /\ \A f \in Range(formats) : f \in Range(filtered) <=> AdmittedAudio(f)
        /\ Range(filtered) \subseteq Range(formats)
        /\ Cardinality(Range(filtered)) = Len(filtered)
        /\ \A i \in 1..(Len(filtered) - 1) :
              \/ filtered[i].abr > filtered[i + 1].abr
              \/ /\ filtered[i].abr = filtered[i + 1].abr
                 /\ filtered[i].filesize <= filtered[i + 1].filesize

\* a lower bitrate came first and the two records of the higher bitrate
\* came larger file first; all three were admitted and put in order
C3_Witness ==
    /\ AudioListed
    /\ Len(formats) = 3 /\ Len(filtered) = 3
    /\ formats[1].abr < formats[2].abr
    /\ formats[2].abr = formats[3].abr
    /\ formats[2].filesize > formats[3].filesize
    /\ filtered = <<formats[3], formats[2], formats[1]>>

\* the orderings of a list
Orderings(s) ==
    { p \in [DOMAIN s -> Range(s)] : \A i, j \in DOMAIN s : i # j => p[i] # p[j] }

\* every pure-audio record, whether its size is known or not
AnyPureAudio(fs) ==
    { f \in Range(fs) :
        /\ ("acodec" \in DOMAIN f => f.acodec # "none")
        /\ "vcodec" \in DOMAIN f /\ f.vcodec = "none" }

\* the pure-audio records with a known size, and those of them with the
\* largest bitrate (an unknown bitrate counts as 0)
PureAudio(fs) ==
    { f \in AnyPureAudio(fs) : "filesize" \in DOMAIN f /\ f.filesize # 0 }

Bitrate(f) == IF "abr" \in DOMAIN f THEN f.abr ELSE 0

MaxBitrateAudio(fs) ==
    { m \in PureAudio(fs) : \A g \in PureAudio(fs) : Bitrate(g) <= Bitrate(m) }

\* the size column list_formats prints for each format_id of its table
ShownEstimates(fs) ==
    LET rows == FilterVideo(fs)
        shown == _print_video_formats_table(rows, get_best_audio_size(fs))
    IN  { <<rows[i].format_id, shown[i].size_str>> : i \in DOMAIN rows }

\* C4: the estimate shown for a video row is the row's filesize plus the
\* filesize of the maximum-bitrate audio-only record, and it is the same
\* for every permutation of the input list, also when several audio-only
\* records share the maximum bitrate and differ in size.
C4_EstimateOrderIndependent ==
    VideoListed =>
        /\ \A i \in DOMAIN table :
              \/ /\ MaxBitrateAudio(formats) = {}
                 /\ table[i].size_str = format_filesize(filtered[i].filesize)
              \/ \E m \in MaxBitrateAudio(formats) :
                    table[i].size_str =
                        format_filesize(filtered[i].filesize + m.filesize)
        /\ \A p \in Orderings(formats) :
              ShownEstimates(p) = ShownEstimates(formats)

\* C5 as stated: the audio size is that of a pure-audio record of the
\* highest bitrate among all pure-audio records, chosen by bitrate alone,
\* also when its filesize is unknown.
C5_BestAudioIgnoresSize ==
    (VideoListed /\ AnyPureAudio(formats) # {}) =>
        \E m \in AnyPureAudio(formats) :
            /\ \A g \in AnyPureAudio(formats) : Bitrate(g) <= Bitrate(m)
            /\ best_audio_size = Get(m, "filesize", 0)

\* C5 amended: the audio size is that of a record of the highest bitrate
\* among the pure-audio records with a known filesize, and 0 when there is
\* none; a record of unknown filesize is never the chosen one.
C5_BestAudioAmongSized ==
    VideoListed =>
        IF PureAudio(formats) = {} THEN best_audio_size = 0
        ELSE \E m \in MaxBitrateAudio(formats) : best_audio_size = m.filesize

\* the highest bitrate belongs to a record of unknown size, and the size
\* of a lower-bitrate record was taken
C5_Witness ==
    /\ VideoListed
    /\ \E u \in AnyPureAudio(formats) :
          /\ "filesize" \notin DOMAIN u
          /\ \A g \in PureAudio(formats) : Bitrate(g) < Bitrate(u)
    /\ PureAudio(formats) # {}
    /\ best_audio_size > 0

\* C6: the estimated total of a video row is shown as "Unknown" whenever
\* the row's own size is unknown or no audio size is available
\* (get_best_audio_size gave 0), otherwise as the sum of both in MB.
C6_UnknownIfEitherUnknown ==
    VideoListed =>
        \A i \in DOMAIN table :
            IF ~Truthy(filtered[i], "filesize") \/ best_audio_size = 0
            THEN table[i].size_str.text = "Unknown"
            ELSE table[i].size_str =
                    format_filesize(filtered[i].filesize + best_audio_size)

\* what each line of the selection prompt means to the operator: the
\* integer it denotes, or no integer
Denotes(line) ==
    CASE line = <<"0">> -> <<0>>
      [] line = <<"5">> -> <<5>>
      [] line = <<"2">> -> <<2>>
      [] line = <<" ", "1", " ">> -> <<1>>
      [] line = <<"+", "3">> -> <<3>>
      [] OTHER -> <<>>

ValidFor(line, n) ==
    Denotes(line) # <<>> /\ 1 <= Denotes(line)[1] /\ Denotes(line)[1] <= n

\* C7: _get_user_format_choice returns a format identifier only for an
\* integer line k with 1 <= k <= n, and it is the identifier of the k-th
\* entry; every line before it was no integer or out of range, was
\* reported as invalid and followed by a new prompt.  The lines "x", "0",
\* "5", "2" on a list of 3 give three reports and the identifier of entry 2.
C7_SelectionInRange ==
    /\ pc = "select" =>
          /\ selected_format = None
          /\ \A i \in DOMAIN typed : ~ValidFor(typed[i], Len(filtered))
          /\ invalid_reports = Len(typed)
          /\ prompts = Len(typed) + 1
    /\ selected_format # None =>
          /\ typed # <<>>
          /\ ValidFor(typed[Len(typed)], Len(filtered))
          /\ selected_format =
                filtered[Denotes(typed[Len(typed)])[1]].format_id
          /\ \A i \in 1..(Len(typed) - 1) : ~ValidFor(typed[i], Len(filtered))
          /\ invalid_reports = Len(typed) - 1
          /\ prompts = Len(typed)
    /\ (Len(filtered) = 3 /\ typed = <<<<"x">>, <<"0">>, <<"5">>, <<"2">>>>) =>
          /\ invalid_reports = 3
          /\ selected_format = filtered[2].format_id

\* the example of the claim has run and the download was requested
C7_Witness ==
    /\ Len(filtered) = 3
    /\ typed = <<<<"x">>, <<"0">>, <<"5">>, <<"2">>>>
    /\ pc = "download"
    /\ selected_format = filtered[2].format_id

\* C8: an interrupt while the selection prompt waits, after any number of
\* invalid lines, makes _get_user_format_choice return None without
\* raising; no download is requested and the process ends without an
\* error exit.
C8_InterruptAtPrompt ==
    interrupt = "select" =>
        /\ selected_format = None
        /\ requests = <<>>
        /\ ~complete
        /\ pc = "exit"
        /\ outcome = "returned"
        /\ exit_code = 0

\* the interrupt came after two invalid lines
C8_Witness ==
    /\ interrupt = "select"
    /\ invalid_reports = 2
    /\ pc = "exit"

\* C9: when the metadata fetch fails, list_formats and list_audio_formats
\* return an empty list without raising, and the workflow ends without a
\* selection prompt and without a download.
C9_FetchFailure ==
    fetch_result = "error" =>
        /\ filtered = <<>>
        /\ pc \in {"listed", "exit"}
        /\ prompts = 0 /\ typed = <<>>
        /\ requests = <<>>
        /\ pc = "exit" => outcome = "returned" /\ exit_code = 0

\* the fetch failed and the process has ended
C9_Witness ==
    /\ fetch_result = "error"
    /\ pc = "exit"
    /\ thread = "joined"

\* C10: when the URL entered is empty or only whitespace, the program
\* exits with code 1 and never starts the status indicator, the metadata
\* query or a download.
C10_EmptyUrlExitsOne ==
    (url_typed # <<>> /\ url_typed[1] \in {<<>>, <<" ", " ">>}) =>
        /\ pc = "exit"
        /\ exit_code = 1
        /\ thread = "none" /\ ~running
        /\ fetch_result = "none"
        /\ requests = <<>>

\* threads that were started and have not ended
AliveThreads == {t \in DOMAIN threads : threads[t] # "done"}

\* stop() has returned and no call was made since
StopReturned == caller = "idle" /\ calls # <<>> /\ calls[Len(calls)] = "stop"

\* no start() was called while an earlier start() had no stop() yet
Paired == \A i \in 2..Len(calls) : ~(calls[i - 1] = "start" /\ calls[i] = "start")

\* C11: after stop() has returned, following a start(), the animation
\* thread has ended and writes nothing more: whatever the interleaving of
\* the two threads, no frame follows the line-clearing write of stop(), and
\* the terminal line stays blank.
C11_StoppedMeansSilent ==
    (StopReturned /\ Paired) => AliveThreads = {} /\ screen = "blank"

\* start() then stop(): the thread wrote frames, was joined, the line is blank
C11_Witness ==
    /\ StopReturned
    /\ calls = <<"start", "stop">>
    /\ threads = <<"done">>
    /\ frames >= 1
    /\ screen = "blank"

\* C12: a call of download_selected_format or download_selected_audio hands
\* exactly one request to the extraction library; a failed request is
\* caught and reported, no second request follows, the function returns
\* normally (the run ends with status 0), and "complete" is reported only
\* for a request that succeeded.
C12_OneRequestNoRetry ==
    /\ Len(requests) <= 1
    /\ download_result # "none" => Len(requests) = 1
    /\ download_result = "error" =>
          /\ pc = "exit" /\ outcome = "returned" /\ exit_code = 0
          /\ ~complete
    /\ complete <=> download_result = "ok"

\* a run whose only download request failed
C12_Witness ==
    /\ download_result = "error"
    /\ Len(requests) = 1
    /\ pc = "exit"
    /\ ~complete

\* C13: when a required external collaborator is missing at startup, the
\* extraction library or the transcoding binary ffmpeg, the downloader
\* reports it and exits with code 1 before it prompts for a URL.
C13_MissingCollaboratorExitsOne ==
    (outcome = "SystemExit" \/ ffmpeg_warning) =>
        pc = "exit" /\ exit_code = 1 /\ url_typed = <<>>

\* C14: an operator interrupt at any blocking point (URL prompt, metadata
\* query, selection prompt, download) ends the process with exit code 0:
\* it is caught at the selection prompt or by __main__, and no generic
\* failure handler turns it into exit code 1.
C14_InterruptExitsZero ==
    interrupt # "none" =>
        /\ pc \in {"goodbye", "exit"}
        /\ outcome \in {"returned", "KeyboardInterrupt"}
        /\ outcome = "returned" <=> interrupt = "select"
        /\ exit_code # 1
        /\ pc = "exit" => exit_code = 0

\* a run interrupted while ydl.download was working
C14_Witness ==
    /\ interrupt = "download"
    /\ download_result = "interrupt"
    /\ pc = "exit"
    /\ exit_code = 0

\* C15: on every path by which list_formats or list_audio_formats produces
\* output (success, fetch failure, operator interrupt during the fetch),
\* stop() of the status indicator has completed before the first line of
\* result or error text, so that no frame is written after that text.
C15_StoppedBeforeOutput ==
    printed => thread = "joined" /\ ~running /\ ~frame_after_text

\* C16: at most one animation thread is alive at any time, for every
\* sequence of start() and stop() calls, start() called again without a
\* stop() in between included, and every started thread is joined by a
\* stop(): once stop() has returned no started thread is left running.
C16_AtMostOneThread ==
    /\ Cardinality(AliveThreads) <= 1
    /\ StopReturned => AliveThreads = {}

\* C17: the steps of a run occur in the order URL input, metadata query
\* with the indicator running, table output, selection prompt, download;
\* a download is requested at most once, only after the prompt returned an
\* identifier, that identifier is the format_id of a record of the filtered
\* list that was displayed, and the video workflow requests the muxed
\* download, the audio-only workflow the audio extraction.
C17_StepOrder ==
    /\ pc = "fetch" =>
          /\ url # <<>> /\ running /\ thread = "alive"
          /\ fetch_result = "none" /\ ~printed
          /\ prompts = 0 /\ requests = <<>>
    /\ fetch_result # "none" => url # <<>>
    /\ printed => fetch_result # "none"
    /\ prompts > 0 => fetch_result = "ok" /\ printed /\ thread = "joined"
                      /\ Len(table) = Len(filtered) /\ filtered # <<>>
    /\ selected_format # None => prompts > 0 /\ typed # <<>>
    /\ Len(requests) <= 1
    /\ requests # <<>> =>
          /\ selected_format # None
          /\ \E i \in DOMAIN filtered : filtered[i].format_id = selected_format
          /\ requests[1].format[1] = selected_format
          /\ requests[1].kind = (IF audio_only THEN "audio" ELSE "video")
    /\ pc = "download" => requests # <<>>

\* an audio-only run that reached the download with a listed identifier
C17_Witness ==
    /\ audio_only
    /\ pc = "download"
    /\ Len(requests) = 1
    /\ requests[1].kind = "audio"
    /\ prompts >= 2

\* C19: when the metadata query succeeds but no record passes the filter,
\* the title and an empty table are printed and the workflow ends without
\* selection prompt and without download; the selection prompt is never
\* entered with a list of length 0.
C19_EmptyListEndsRun ==
    /\ pc = "select" => Len(filtered) >= 1
    /\ prompts > 0 => Len(filtered) >= 1
    /\ (fetch_result = "ok" /\ filtered = <<>>) =>
          /\ pc \in {"listed", "exit"}
          /\ printed /\ table = <<>>
          /\ prompts = 0 /\ typed = <<>> /\ requests = <<>>
          /\ pc = "exit" => outcome = "returned" /\ exit_code = 0

\* a run whose query succeeded with nothing to list, ended by the workflow
C19_Witness ==
    /\ fetch_result = "ok"
    /\ filtered = <<>>
    /\ pc = "exit"
    /\ prompts = 0

\* what install_pip_package can run, in the order of its text
InstallOrder ==
    << <<"sudo", "apt", "update">>,
       <<"sudo", "apt", "install", "-y", "yt-dlp">>,
       <<"sudo", "apt", "install", "-y", "pipx">>,
       <<"pipx", "install", env.package_name>>,
       <<"pip3", "install", "--upgrade", env.package_name>>,
       <<"pip3", "install", "--user", "--upgrade", env.package_name>>,
       <<"pip", "install", "--upgrade", env.package_name>>,
       <<"pip", "install", "--user", "--upgrade", env.package_name>>,
       <<"python", "-m", "pip", "install", "--upgrade", env.package_name>>,
       <<"python", "-m", "pip", "install", "--user", "--upgrade",
         env.package_name>> >>

\* the place of a command that was run in that order
Rank(i) == CHOOSE k \in DOMAIN InstallOrder : InstallOrder[k] = commands[i].command

\* the commands that prepare a strategy without installing the package
Preparatory == {InstallOrder[1], InstallOrder[3]}

\* command k of the order was run and succeeded / was run and failed
Succeeded(k) ==
    \E i \in DOMAIN commands :
        commands[i].command = InstallOrder[k] /\ commands[i].result = "ok"

Failed(k) ==
    \E i \in DOMAIN commands :
        commands[i].command = InstallOrder[k] /\ commands[i].result # "ok"

\* each strategy the machine allows was tried and did not install the package
SystemPackageFailed ==
    (env.system = "linux" /\ env.package_name = "yt-dlp" /\ env.apt) =>
        Failed(1) \/ (Succeeded(1) /\ Failed(2))

PipxFailed ==
    /\ (env.system = "linux" /\ env.pipx) => Failed(4)
    /\ (env.system = "linux" /\ ~env.pipx /\ env.apt) =>
          Failed(3) \/ (Succeeded(3) /\ Failed(4))

PipFailed ==
    /\ env.pip3 => Failed(5) /\ Failed(6)
    /\ env.pip => Failed(7) /\ Failed(8)
    /\ Failed(9) /\ Failed(10)

\* C18: install_pip_package runs its commands in one fixed order and stops
\* at the first success: once a command that installs the package succeeds
\* it returns True and runs nothing more, it returns False only after every
\* strategy the machine allows was tried and failed, and a failing
\* command, run as non-critical, never ends the process.
C18_FirstSuccessWins ==
    /\ \A i \in DOMAIN commands :
          /\ commands[i].command \in Range(InstallOrder)
          /\ i > 1 => Rank(i - 1) < Rank(i)
          /\ (commands[i].result = "ok"
              /\ commands[i].command \notin Preparatory) =>
                 /\ i = Len(commands)
                 /\ ipc = "returned" /\ install_result = "True"
    /\ install_result = "True" =>
          /\ commands # <<>>
          /\ commands[Len(commands)].result = "ok"
          /\ commands[Len(commands)].command \notin Preparatory
    /\ install_result = "False" =>
          /\ ipc = "returned"
          /\ SystemPackageFailed /\ PipxFailed /\ PipFailed
    /\ ~install_exit
    /\ ipc # "exit"

\* pip3 failed, its --user install succeeded: True, pip was not tried
C18_Witness ==
    /\ install_result = "True"
    /\ env.pip3 /\ env.pip
    /\ Failed(5) /\ Succeeded(6)
    /\ commands[Len(commands)].command = InstallOrder[6]

====
